---- MODULE Spec2Model ----
(***************************************************************************)
(* Popularity computation and ranked listing of posts.                     *)
(*                                                                         *)
(*   PostsPopularity.execute   application/usecases/comp/post.ts           *)
(*   PostController.readAll    interface/controllers/post.ts               *)
(*   PostController.popularity interface/controllers/post.ts               *)
(*                                                                         *)
(* One request is in flight at a time; each await of a handler is a step,  *)
(* and the post store may change between the steps of a request.           *)
(***************************************************************************)
EXTENDS Integers, Sequences, FiniteSets

\* ---------------------------------------------------------------- bounds
MaxPosts == 2
MaxLikes == 2
MaxUsers == 3
MaxDate == 2
MaxRequests == 2

\* An optional value is a set of at most one element: NULL is null/undefined.
NULL == {}
Some(v) == {v}
Val(o) == CHOOSE v \in o : TRUE
\* the absent value of a string-valued field
None == "none"

\* ------------------------------------------------------- text (JS strings)
\* A string is a sequence of one-character strings.
Lower == [c \in {"a", "A", "b", "B"} |->
            IF c = "A" THEN "a" ELSE IF c = "B" THEN "b" ELSE c]

\* String.prototype.toLowerCase
toLowerCase(s) == [i \in 1..Len(s) |-> Lower[s[i]]]

\* s starts with t at offset i (1-based)
MatchAt(s, t, i) == \A k \in 1..Len(t) : s[i + k - 1] = t[k]

RECURSIVE IndexFrom(_, _, _)
\* left-to-right scan of String.prototype.includes: first offset >= i, 0 if none
IndexFrom(s, t, i) ==
    IF i + Len(t) - 1 > Len(s) THEN 0
    ELSE IF MatchAt(s, t, i) THEN i
    ELSE IndexFrom(s, t, i + 1)

\* String.prototype.includes
includes(s, t) == IndexFrom(s, t, 1) # 0

\* collation weights of the letters: primary = the letter, tertiary = the case
Primary == [c \in {"a", "A", "b", "B"} |-> IF c \in {"a", "A"} THEN 1 ELSE 2]
Tertiary == [c \in {"a", "A", "b", "B"} |-> IF c \in {"a", "b"} THEN 0 ELSE 1]

Sign(n) == IF n < 0 THEN -1 ELSE IF n > 0 THEN 1 ELSE 0

RECURSIVE LexCmp(_, _, _, _)
\* lexicographic comparison of the weights w of s and t from position i
LexCmp(w, s, t, i) ==
    IF i > Len(s) /\ i > Len(t) THEN 0
    ELSE IF i > Len(s) THEN -1
    ELSE IF i > Len(t) THEN 1
    ELSE IF w[s[i]] # w[t[i]] THEN Sign(w[s[i]] - w[t[i]])
    ELSE LexCmp(w, s, t, i + 1)

\* String.prototype.localeCompare: letters first, case breaks the ties
\* (lower case before upper case)
localeCompare(s, t) ==
    IF LexCmp(Primary, s, t, 1) # 0 THEN LexCmp(Primary, s, t, 1)
    ELSE LexCmp(Tertiary, s, t, 1)

\* ------------------------------------------------------ numbers (doubles)
\* A number is a finite fraction n/d in lowest terms (d > 0), -0, an
\* infinity or NaN.
RECURSIVE GCD(_, _)
GCD(a, b) == IF b = 0 THEN a ELSE GCD(b, a % b)

Abs(n) == IF n < 0 THEN -n ELSE n

Fin(n, d) == [k |-> "fin", n |-> n \div GCD(Abs(n), d), d |-> d \div GCD(Abs(n), d)]
Zero == [k |-> "fin", n |-> 0, d |-> 1]
NegZero == [k |-> "negzero", n |-> 0, d |-> 1]
PosInf == [k |-> "inf", n |-> 1, d |-> 0]
NegInf == [k |-> "inf", n |-> -1, d |-> 0]
NaN == [k |-> "nan", n |-> 0, d |-> 0]

\* a / b for integers a >= 0 and b
Div(a, b) ==
    IF b = 0 THEN (IF a = 0 THEN NaN ELSE PosInf)
    ELSE IF a = 0 THEN (IF b < 0 THEN NegZero ELSE Zero)
    ELSE IF b < 0 THEN Fin(-a, -b)
    ELSE Fin(a, b)

\* x >= 0
GeZero(x) ==
    CASE x.k = "nan" -> FALSE
      [] x.k = "inf" -> x.n > 0
      [] x.k = "negzero" -> TRUE
      [] OTHER -> x.n >= 0

\* x || 0
OrZero(x) == IF x.k \in {"nan", "negzero"} \/ (x.k = "fin" /\ x.n = 0) THEN Zero ELSE x

\* the sign of x - y as a sort comparator reads it (NaN counts as 0)
SubSign(x, y) ==
    CASE x.k = "nan" \/ y.k = "nan" -> 0
      [] x.k = "inf" /\ y.k = "inf" -> Sign(x.n - y.n)
      [] x.k = "inf" -> x.n
      [] y.k = "inf" -> -y.n
      [] OTHER -> Sign(x.n * y.d - y.n * x.d)

\* ------------------------------------------------------------ the domain
\* Post (domain/entities/post.ts); likes is NULL when the collection is absent
Titles == {<<"a">>, <<"B">>, <<"b", "a">>}
Contents == {NULL, Some(<<"A", "b">>)}
Dates == 1..MaxDate
LikeLists == {NULL} \cup {Some([i \in 1..n |-> [id |-> i, userId |-> i]]) : n \in 0..MaxLikes}

PostOf(i, t, c, d, l) ==
    [id |-> i, title |-> t, content |-> c, deleted |-> FALSE, authorId |-> 1,
     date |-> d, likes |-> l]

\* the posts an id may name: every text, every date and every like list
\* occurs, each varied on a post that is plain in the other two
PostsWithId(i) ==
    {PostOf(i, t, c, 1, NULL) : t \in Titles, c \in Contents}
    \cup {PostOf(i, <<"B">>, NULL, d, NULL) : d \in Dates}
    \cup {PostOf(i, <<"a">>, NULL, 1, l) : l \in LikeLists}

RECURSIVE Stores(_)
\* the stores holding posts with ids among 1..n, in id order
Stores(n) ==
    IF n = 0 THEN {<<>>}
    ELSE Stores(n - 1) \cup {Append(s, p) : s \in Stores(n - 1), p \in PostsWithId(n)}

\* the request parameters: the :order path parameter and the q query parameter
Orders == {None, "nombre-asc", "nombre-desc", "popularidad-asc", "popularidad-desc", "fecha"}
Queries == {NULL, Some(<<>>), Some(<<"A">>)}
Errors == {"E1", "E2"}

\* ------------------------------------------------- PostsPopularity.execute
\* post.likes?.length || 0
LikeCount(post) == IF post.likes = NULL THEN 0 ELSE Len(Val(post.likes))

\* variant: divides by the number of users, not by the number of other users
PopularityEntryAllUsers(post, users) ==
    LET likes == LikeCount(post)
        totalUsers == Len(users)
        popularity == Div(likes, totalUsers)
    IN  IF GeZero(popularity) THEN [id |-> post.id, popularity |-> popularity]
        ELSE [id |-> post.id, popularity |-> Zero]

\* variant: returns the quotient as it is, without the test popularity >= 0
PopularityEntryUnclamped(post, users) ==
    [id |-> post.id, popularity |-> Div(LikeCount(post), Len(users) - 1)]

\* the body of the map callback: one score
PopularityEntry(post, users) ==
    LET likes == LikeCount(post)
        totalUsers == Len(users)
        popularity == Div(likes, totalUsers - 1)
    IN  IF GeZero(popularity) THEN [id |-> post.id, popularity |-> popularity]
        ELSE [id |-> post.id, popularity |-> Zero]

\* posts.map(...)
PopularityMap(posts, users) == [i \in 1..Len(posts) |-> PopularityEntry(posts[i], users)]

\* ------------------------------------------------- PostController.readAll
\* variant: compares without toLowerCase
MatchesCaseSensitive(post, searchQuery) ==
    \/ includes(post.title, searchQuery)
    \/ /\ post.content # NULL
       /\ includes(Val(post.content), searchQuery)

\* the filter callback
Matches(post, searchQuery) ==
    \/ includes(toLowerCase(post.title), toLowerCase(searchQuery))
    \/ /\ post.content # NULL
       /\ includes(toLowerCase(Val(post.content)), toLowerCase(searchQuery))

\* Array.prototype.filter
RECURSIVE FilterPosts(_, _)
FilterPosts(posts, searchQuery) ==
    IF posts = <<>> THEN <<>>
    ELSE IF Matches(Head(posts), searchQuery)
         THEN <<Head(posts)>> \o FilterPosts(Tail(posts), searchQuery)
         ELSE FilterPosts(Tail(posts), searchQuery)

\* if (searchQuery): undefined and "" are falsy
Searching(searchQuery) == searchQuery # NULL /\ Val(searchQuery) # <<>>

\* postsPopularity.find(p => p.id === id)?.popularity || 0
RECURSIVE FindPopularity(_, _, _)
FindPopularity(table, id, i) ==
    IF i > Len(table) THEN Zero
    ELSE IF table[i].id = id THEN OrZero(table[i].popularity)
    ELSE FindPopularity(table, id, i + 1)

\* variant: a post without an entry ranks above every other post
LookupMissingLast(table, id) ==
    IF \E i \in 1..Len(table) : table[i].id = id THEN FindPopularity(table, id, 1)
    ELSE PosInf

Lookup(table, id) == FindPopularity(table, id, 1)

\* variant: the two name orders exchanged
CompareNamesExchanged(order, table, a, b) ==
    CASE order = "nombre-asc" -> localeCompare(b.title, a.title)
      [] order = "nombre-desc" -> localeCompare(a.title, b.title)
      [] order = "popularidad-asc" -> SubSign(Lookup(table, a.id), Lookup(table, b.id))
      [] order = "popularidad-desc" -> SubSign(Lookup(table, b.id), Lookup(table, a.id))
      [] OTHER -> Sign(b.date - a.date)

\* variant: the descending orders compare as the ascending ones
CompareDescendingAsAscending(order, table, a, b) ==
    CASE order \in {"nombre-asc", "nombre-desc"} -> localeCompare(a.title, b.title)
      [] order \in {"popularidad-asc", "popularidad-desc"} ->
            SubSign(Lookup(table, a.id), Lookup(table, b.id))
      [] OTHER -> Sign(b.date - a.date)

\* variant: the default order is oldest first
CompareOldestFirst(order, table, a, b) ==
    CASE order = "nombre-asc" -> localeCompare(a.title, b.title)
      [] order = "nombre-desc" -> localeCompare(b.title, a.title)
      [] order = "popularidad-asc" -> SubSign(Lookup(table, a.id), Lookup(table, b.id))
      [] order = "popularidad-desc" -> SubSign(Lookup(table, b.id), Lookup(table, a.id))
      [] OTHER -> Sign(a.date - b.date)

\* the comparator of the switch on order; table is postsPopularity
Compare(order, table, a, b) ==
    CASE order = "nombre-asc" -> localeCompare(a.title, b.title)
      [] order = "nombre-desc" -> localeCompare(b.title, a.title)
      [] order = "popularidad-asc" -> SubSign(Lookup(table, a.id), Lookup(table, b.id))
      [] order = "popularidad-desc" -> SubSign(Lookup(table, b.id), Lookup(table, a.id))
      [] OTHER -> Sign(b.date - a.date)

RECURSIVE Insert(_, _, _, _)
\* x moves left past every element it compares below
Insert(x, s, order, table) ==
    IF s = <<>> THEN <<x>>
    ELSE IF Compare(order, table, x, s[Len(s)]) < 0
         THEN Append(Insert(x, SubSeq(s, 1, Len(s) - 1), order, table), s[Len(s)])
         ELSE Append(s, x)

RECURSIVE SortFrom(_, _, _, _)
SortFrom(s, i, order, table) ==
    IF i = 0 THEN <<>>
    ELSE Insert(s[i], SortFrom(s, i - 1, order, table), order, table)

\* Array.prototype.sort (stable) with the comparator of the order key
SortPosts(s, order, table) == SortFrom(s, Len(s), order, table)

ByPopularity(order) == order \in {"popularidad-asc", "popularidad-desc"}

\* ------------------------------------------------------------------ state
VARIABLES
    db,         \* the post store, as postRepository.readAll returns it
    handler,    \* the handler of the request in flight: None, "readAll", "popularity"
    pc,         \* its position: "idle", "ra_posts", "pp_posts", "pp_users", "done"
    order,      \* req.params.order
    q,          \* req.query.q
    snap,       \* the array ReadAllPosts handed over, as it was handed over
    arr,        \* that same array object now
    posts,      \* the local variable posts of readAll
    ppPosts,    \* posts of PostsPopularity.execute
    ppUsers,    \* users of PostsPopularity.execute
    table,      \* the value execute resolved with
    ppRejected, \* the error execute rejected with
    res,        \* the response sent: [status, body]
    thrown,     \* the error a repository call rejected with
    nextErr,    \* the error handed to next()
    unhandled,  \* the error the handler's own promise rejected with
    calls,      \* the repository calls of the request, in order
    dels,       \* the DELETE /posts/:id requests, each with its position
    target,     \* req.params.id of the DELETE requests
    db0         \* the post store before the first DELETE request

vars == <<db, handler, pc, order, q, snap, arr, posts, ppPosts, ppUsers, table,
          ppRejected, res, thrown, nextErr, unhandled, calls, dels, target, db0>>

delVars == <<dels, target, db0>>

reqVars == <<snap, arr, posts, ppPosts, ppUsers, table, ppRejected, res, thrown,
             nextErr, unhandled>>

\* a DELETE request that has not arrived
IdleDelete ==
    [pc |-> "idle", user |-> NULL, type |-> None, post |-> NULL, status |-> 0,
     body |-> NULL, nextErr |-> None, unhandled |-> None]

\* no listing or popularity request is in flight
NoRequest ==
    /\ handler = None /\ pc = "idle" /\ order = None /\ q = NULL
    /\ snap = NULL /\ arr = NULL /\ posts = NULL
    /\ ppPosts = NULL /\ ppUsers = NULL /\ table = NULL /\ ppRejected = None
    /\ res = NULL /\ thrown = None /\ nextErr = None /\ unhandled = None
    /\ calls = <<>>

Init ==
    /\ db \in Stores(MaxPosts)
    /\ NoRequest
    /\ dels = [r \in 1..MaxRequests |-> IdleDelete]
    /\ target = 0
    /\ db0 = <<>>

\* the repository calls a request makes
RaPostRead == [by |-> "ReadAllPosts", repo |-> "post", op |-> "readAll"]
PpPostRead == [by |-> "PostsPopularity", repo |-> "post", op |-> "readAll"]
PpUserRead == [by |-> "PostsPopularity", repo |-> "user", op |-> "readAll"]

\* res.status(200).json(body)
Ok(body) == Some([status |-> 200, body |-> body])

\* GET /posts/:order arrives: readAll calls ReadAllPosts.execute and awaits
StartReadAll ==
    /\ pc = "idle"
    /\ \E o \in Orders, s \in Queries : order' = o /\ q' = s
    /\ handler' = "readAll" /\ pc' = "ra_posts"
    /\ calls' = <<RaPostRead>>
    /\ UNCHANGED <<delVars, db, reqVars>>

\* the rest of readAll once posts holds the (filtered) list and, for the
\* popularity orders, tbl holds postsPopularity: sort in place and respond
SortAndRespond(list, shared, tbl) ==
    LET sorted == SortPosts(list, order, tbl)
    IN  /\ posts' = Some(sorted)
        /\ arr' = IF shared THEN Some(sorted) ELSE arr
        /\ res' = Ok(sorted)
        /\ pc' = "done"

\* ra.execute() resolves: filter, then either sort and respond or call
\* PostsPopularity.execute, which calls postRepository.readAll and awaits
ReadAllFetched ==
    /\ handler = "readAll" /\ pc = "ra_posts"
    /\ snap' = Some(db)
    /\ LET list == IF Searching(q) THEN FilterPosts(db, Val(q)) ELSE db
           sorted == SortPosts(list, order, <<>>)
       IN  IF ByPopularity(order)
           THEN /\ posts' = Some(list)
                /\ arr' = Some(db)
                /\ pc' = "pp_posts"
                /\ calls' = Append(calls, PpPostRead)
                /\ UNCHANGED res
           ELSE /\ posts' = Some(sorted)
                /\ arr' = IF Searching(q) THEN Some(db) ELSE Some(sorted)
                /\ res' = Ok(sorted)
                /\ pc' = "done"
                /\ UNCHANGED calls
    /\ UNCHANGED <<delVars, db, handler, order, q, ppPosts, ppUsers, table, ppRejected,
                   thrown, nextErr, unhandled>>

\* ra.execute() rejects: catch (error) { next(error) }
ReadAllFetchFails ==
    /\ handler = "readAll" /\ pc = "ra_posts"
    /\ \E e \in Errors : thrown' = e /\ nextErr' = e
    /\ pc' = "done"
    /\ UNCHANGED <<delVars, db, handler, order, q, snap, arr, posts, ppPosts, ppUsers, table,
                   ppRejected, res, unhandled, calls>>

\* GET /popularity arrives: popularity calls PostsPopularity.execute, which
\* calls postRepository.readAll and awaits
StartPopularity ==
    /\ pc = "idle"
    /\ handler' = "popularity" /\ pc' = "pp_posts"
    /\ calls' = <<PpPostRead>>
    /\ UNCHANGED <<delVars, db, order, q, reqVars>>

\* variant: execute reads the posts a second time before it reads the users
ExecutePostsFetchedTwice ==
    /\ pc = "pp_posts"
    /\ ppPosts' = Some(db)
    /\ calls' = Append(Append(calls, PpPostRead), PpUserRead)
    /\ pc' = "pp_users"
    /\ UNCHANGED <<delVars, db, handler, order, q, snap, arr, posts, ppUsers, table,
                   ppRejected, res, thrown, nextErr, unhandled>>

\* execute: postRepository.readAll resolves; userRepository.readAll is called
ExecutePostsFetched ==
    /\ pc = "pp_posts"
    /\ ppPosts' = Some(db)
    /\ calls' = Append(calls, PpUserRead)
    /\ pc' = "pp_users"
    /\ UNCHANGED <<delVars, db, handler, order, q, snap, arr, posts, ppUsers, table,
                   ppRejected, res, thrown, nextErr, unhandled>>

\* execute rejected with e: readAll catches it and calls next(e); popularity
\* has no try/catch, so its own promise rejects
ExecuteRejected(e) ==
    /\ thrown' = e
    /\ ppRejected' = e
    /\ IF handler = "readAll"
       THEN nextErr' = e /\ UNCHANGED unhandled
       ELSE unhandled' = e /\ UNCHANGED nextErr
    /\ pc' = "done"
    /\ UNCHANGED <<delVars, db, handler, order, q, snap, arr, posts, ppPosts, ppUsers, table,
                   res, calls>>

\* execute: postRepository.readAll rejects
ExecutePostsFetchFails ==
    /\ pc = "pp_posts"
    /\ \E e \in Errors : ExecuteRejected(e)

\* execute: userRepository.readAll resolves with n users; the scores are
\* computed and the handler goes on to its response
ExecuteUsersFetched ==
    /\ pc = "pp_users"
    /\ \E n \in 0..MaxUsers :
        LET users == [i \in 1..n |-> [id |-> i]]
            scores == PopularityMap(Val(ppPosts), users)
        IN  /\ ppUsers' = Some(users)
            /\ table' = Some(scores)
            /\ IF handler = "readAll"
               THEN SortAndRespond(Val(posts), ~Searching(q), scores)
               ELSE /\ res' = Ok(scores)
                    /\ pc' = "done"
                    /\ UNCHANGED <<posts, arr>>
    /\ UNCHANGED <<delVars, db, handler, order, q, snap, ppPosts, ppRejected, thrown,
                   nextErr, unhandled, calls>>

\* execute: userRepository.readAll rejects
ExecuteUsersFetchFails ==
    /\ pc = "pp_users"
    /\ \E e \in Errors : ExecuteRejected(e)

\* the request is over; the next one starts from a fresh handler state
Finish ==
    /\ pc = "done"
    /\ handler' = None /\ pc' = "idle" /\ order' = None /\ q' = NULL
    /\ snap' = NULL /\ arr' = NULL /\ posts' = NULL
    /\ ppPosts' = NULL /\ ppUsers' = NULL /\ table' = NULL /\ ppRejected' = None
    /\ res' = NULL /\ thrown' = None /\ nextErr' = None /\ unhandled' = None
    /\ calls' = <<>>
    /\ UNCHANGED <<db, delVars>>

\* postRepository.delete(id) of another request removes a post from the store
\* while this request awaits the post repository
RepositoryDelete ==
    /\ pc \in {"ra_posts", "pp_posts"}
    /\ \E i \in 1..Len(db) :
        db' = SubSeq(db, 1, i - 1) \o SubSeq(db, i + 1, Len(db))
    /\ UNCHANGED <<handler, pc, order, q, reqVars, calls, delVars>>

Next ==
    \/ StartReadAll
    \/ ReadAllFetched
    \/ ReadAllFetchFails
    \/ StartPopularity
    \/ ExecutePostsFetched
    \/ ExecutePostsFetchFails
    \/ ExecuteUsersFetched
    \/ ExecuteUsersFetchFails
    \/ Finish
    \/ RepositoryDelete

Spec == Init /\ [][Next]_vars

\* ------------------------------------------------- PostController.delete
\* req.user, NULL when the token set none; the posts' author is user 1
DeleteUsers ==
    {NULL, Some([id |-> 1, role |-> "USER"]), Some([id |-> 2, role |-> "USER"]),
     Some([id |-> 2, role |-> "ADMIN"])}
\* req.query.type
DeleteTypes == {"hard", "soft", "other"}

RECURSIVE DeleteStores(_)
\* the stores of plain posts with ids among 1..n, deleted or not
DeleteStores(n) ==
    IF n = 0 THEN {<<>>}
    ELSE DeleteStores(n - 1)
         \cup {Append(s, [PostOf(n, <<"a">>, NULL, 1, NULL) EXCEPT !.deleted = f]) :
                 s \in DeleteStores(n - 1), f \in BOOLEAN}

\* postRepository.readById(id): the post, or null
ReadById(store, id) ==
    IF \E i \in 1..Len(store) : store[i].id = id
    THEN Some(store[CHOOSE i \in 1..Len(store) : store[i].id = id])
    ELSE NULL

\* postRepository.delete(id): the store without the post
RemovePost(store, id) == SelectSeq(store, LAMBDA p : p.id # id)

\* postRepository.update(id, { deleted: flag }): the store with the flag set
UpdateDeleted(store, id, flag) ==
    [i \in 1..Len(store) |->
        IF store[i].id = id THEN [store[i] EXCEPT !.deleted = flag] ELSE store[i]]

\* variant: hardDelete without the role test
HardAuthorizedAnyone(user) == user.role \in {"USER", "ADMIN"}

\* hardDelete: user.role === "ADMIN"
HardAuthorized(user) == user.role = "ADMIN"

\* softDelete: user.id === post.authorId || user.role === "ADMIN"
SoftAuthorized(user, post) == user.id = post.authorId \/ user.role = "ADMIN"

\* the request after res.status(code).json(...) and throw e inside try: next(e)
Refused(user, type, post, code, e) ==
    [pc |-> "done", user |-> user, type |-> type, post |-> post, status |-> code,
     body |-> NULL, nextErr |-> e, unhandled |-> None]

\* the request after res.status(403).json(...) and throw e in hardDelete or
\* softDelete, which delete does not await: their promise rejects
Forbidden(user, type, post, e) ==
    [pc |-> "done", user |-> user, type |-> type, post |-> post, status |-> 403,
     body |-> NULL, nextErr |-> None, unhandled |-> e]

\* the request awaiting postRepository.delete or postRepository.update
Awaiting(user, type, post, at) ==
    [pc |-> at, user |-> user, type |-> type, post |-> post, status |-> 0,
     body |-> NULL, nextErr |-> None, unhandled |-> None]

\* delete, from the result of readById to the next await or to the response
AfterReadById(user, type, post) ==
    IF post = NULL THEN Refused(user, type, post, 404, "FindDbError")
    ELSE IF user = NULL THEN Refused(user, type, post, 401, "UnauthorizedError")
    ELSE IF type = "hard"
         THEN IF HardAuthorized(Val(user)) THEN Awaiting(user, type, post, "hard_wait")
              ELSE Forbidden(user, type, post, "UnauthorizedError")
    ELSE IF type = "soft"
         THEN IF SoftAuthorized(Val(user), Val(post))
              THEN Awaiting(user, type, post, "soft_wait")
              ELSE Forbidden(user, type, post, "UnauthorizedError")
    ELSE Refused(user, type, post, 400, None)

listVars == <<handler, pc, order, q, reqVars, calls>>

\* the requests arrive one after the other
MayArrive(r) ==
    /\ dels[r].pc = "idle"
    /\ IF r = 1 THEN TRUE ELSE dels[r - 1].pc # "idle"

\* DELETE /posts/:id arrives and r.execute(id) resolves
DeleteReadById ==
    /\ \E r \in 1..MaxRequests, u \in DeleteUsers, t \in DeleteTypes :
        /\ MayArrive(r)
        /\ dels' = [dels EXCEPT ![r] = AfterReadById(u, t, ReadById(db, target))]
    /\ UNCHANGED <<db, target, db0, listVars>>

\* DELETE /posts/:id arrives and r.execute(id) rejects: catch, next(error),
\* before req.user and req.query.type are read
DeleteReadByIdFails ==
    /\ \E r \in 1..MaxRequests, e \in Errors :
        /\ MayArrive(r)
        /\ dels' = [dels EXCEPT ![r] = Refused(NULL, None, NULL, 0, e)]
    /\ UNCHANGED <<db, target, db0, listVars>>

\* a request whose repository call found no post with the id: the call
\* rejects, and with it the promise of hardDelete or softDelete
RecordMissing(d) == [d EXCEPT !.pc = "done", !.unhandled = "RecordNotFound"]

\* hardDelete: postRepository.delete(id) resolves, res.status(200).json(post)
HardDeleteResolves ==
    /\ \E r \in 1..MaxRequests :
        /\ dels[r].pc = "hard_wait"
        /\ IF ReadById(db, target) # NULL
           THEN /\ db' = RemovePost(db, target)
                /\ dels' = [dels EXCEPT ![r].pc = "done", ![r].status = 200,
                                        ![r].body = ReadById(db, target)]
           ELSE /\ dels' = [dels EXCEPT ![r] = RecordMissing(dels[r])]
                /\ UNCHANGED db
    /\ UNCHANGED <<target, db0, listVars>>

\* softDelete: postRepository.update(id, { deleted: !post.deleted }) resolves,
\* res.status(200).json(post); post is the post readById returned
SoftDeleteResolves ==
    /\ \E r \in 1..MaxRequests :
        /\ dels[r].pc = "soft_wait"
        /\ IF ReadById(db, target) # NULL
           THEN /\ db' = UpdateDeleted(db, target, ~Val(dels[r].post).deleted)
                /\ dels' = [dels EXCEPT ![r].pc = "done", ![r].status = 200,
                                        ![r].body = ReadById(db', target)]
           ELSE /\ dels' = [dels EXCEPT ![r] = RecordMissing(dels[r])]
                /\ UNCHANGED db
    /\ UNCHANGED <<target, db0, listVars>>

InitDelete ==
    /\ db \in DeleteStores(MaxPosts)
    /\ NoRequest
    /\ dels = [r \in 1..MaxRequests |-> IdleDelete]
    /\ target \in 1..MaxPosts
    /\ db0 = db

NextDelete ==
    \/ DeleteReadById
    \/ DeleteReadByIdFails
    \/ HardDeleteResolves
    \/ SoftDeleteResolves

SpecDelete == InitDelete /\ [][NextDelete]_vars

\* ----------------------------------------------------------- properties
Done == pc = "done"
Listed == handler = "readAll" /\ Done /\ res # NULL
Body == Val(res).body
Reverse(s) == [i \in 1..Len(s) |-> s[Len(s) + 1 - i]]
Ids(s) == {s[i].id : i \in 1..Len(s)}

\* the number of likes attached to a post, 0 when the collection is absent or empty
LikesAttached(post) ==
    IF post.likes = NULL THEN 0
    ELSE IF Val(post.likes) = <<>> THEN 0
    ELSE Cardinality(DOMAIN Val(post.likes))

\* x <= y on the non-negative numbers and +Infinity
NumLe(x, y) ==
    \/ x = y
    \/ x.k = "fin" /\ y = PosInf
    \/ x.k = "fin" /\ y.k = "fin" /\ x.n * y.d <= y.n * x.d

\* one entry per fetched post, in the order of the fetch, with the post's id
EntryPerPost ==
    /\ Len(Val(table)) = Len(Val(ppPosts))
    /\ \A i \in 1..Len(Val(ppPosts)) : Val(table)[i].id = Val(ppPosts)[i].id

\* C1: with more than one user, execute returns one entry per fetched post, in
\* fetch order, with the post's id and popularity likeCount / (userCount - 1),
\* which is never negative.
C1_PopularityIsLikesOverOtherUsers ==
    (table # NULL /\ Len(Val(ppUsers)) > 1) =>
        /\ EntryPerPost
        /\ \A i \in 1..Len(Val(ppPosts)) :
            LET x == Val(table)[i].popularity
            IN  /\ x.k = "fin" /\ x.d > 0 /\ x.n >= 0
                /\ x.n * (Len(Val(ppUsers)) - 1) = LikesAttached(Val(ppPosts)[i]) * x.d

\* three users, a post with two likes (popularity 1), a post with one like
\* (popularity 1/2) both scored
C1_Witness ==
    /\ handler = "popularity" /\ Done /\ table # NULL
    /\ Len(Val(ppUsers)) = 3
    /\ Len(Val(table)) = 2
    /\ Val(table)[1].popularity = [k |-> "fin", n |-> 1, d |-> 1]
    /\ Val(table)[2].popularity = [k |-> "fin", n |-> 1, d |-> 2]

\* C2: with at most one user, execute still returns one entry per post in
\* fetch order; with one user a liked post scores Infinity and an unliked one
\* 0, with no user every post scores 0.
C2_ClampWithAtMostOneUser ==
    (table # NULL /\ Len(Val(ppUsers)) <= 1) =>
        /\ EntryPerPost
        /\ \A i \in 1..Len(Val(ppPosts)) :
            LET x == Val(table)[i].popularity
                l == LikesAttached(Val(ppPosts)[i])
            IN  IF Len(Val(ppUsers)) = 1
                THEN IF l >= 1 THEN x = PosInf ELSE x = Zero
                ELSE x.k \in {"fin", "negzero"} /\ x.n = 0

\* one user, a liked post (Infinity) and a post without likes (0)
C2_Witness ==
    /\ Done /\ table # NULL
    /\ Len(Val(ppUsers)) = 1
    /\ Len(Val(table)) = 2
    /\ Val(table)[1].popularity = PosInf
    /\ LikesAttached(Val(ppPosts)[2]) = 0
    /\ Val(table)[2].popularity = Zero

Kept == IF Searching(q) THEN FilterPosts(Val(snap), Val(q)) ELSE Val(snap)
Ascending(o) == IF o = "nombre-desc" THEN "nombre-asc" ELSE "popularidad-asc"
TableOrNone == IF table = NULL THEN <<>> ELSE Val(table)
\* the listing the ascending order key gives for the same posts and scores
AscendingListing == SortPosts(Kept, Ascending(order), TableOrNone)
SortKey(post) ==
    IF order = "nombre-desc" THEN [k |-> "title", v |-> post.title]
    ELSE [k |-> "popularity", v |-> Lookup(TableOrNone, post.id)]
KeysDistinct ==
    \A i, j \in 1..Len(Kept) : i # j => SortKey(Kept[i]) # SortKey(Kept[j])

\* C4 as stated: the listing of a descending order key is the exact reverse of
\* the listing of the ascending one, for all inputs.
C4_ExactReverse ==
    (Listed /\ order \in {"nombre-desc", "popularidad-desc"}) =>
        Body = Reverse(AscendingListing)

\* C4 as amended: the titles (the looked-up popularities) of the descending
\* listing are those of the ascending listing in reverse, and the listing
\* itself is the exact reverse when no two listed posts have the same title
\* (the same looked-up popularity).
C4_ReverseUpToTies ==
    (Listed /\ order \in {"nombre-desc", "popularidad-desc"}) =>
        /\ [i \in 1..Len(Body) |-> SortKey(Body[i])]
             = Reverse([i \in 1..Len(Kept) |-> SortKey(AscendingListing[i])])
        /\ KeysDistinct => Body = Reverse(AscendingListing)

\* two posts of different popularity listed most popular first
C4_Witness ==
    /\ Listed /\ order = "popularidad-desc"
    /\ Len(Body) = 2 /\ KeysDistinct
    /\ Body[1] = Val(snap)[2]

\* s contains t, letters compared without their case
ContainsIgnoringCase(s, t) ==
    \E i \in 1..(Len(s) - Len(t) + 1) :
        \A k \in 1..Len(t) : Lower[s[i + k - 1]] = Lower[t[k]]

\* C5: with a non-empty search string the listing returns exactly the fetched
\* posts whose title or non-null content contains it, case-insensitively;
\* without one it returns every fetched post.
C5_SearchFilter ==
    Listed =>
        /\ \A i \in 1..Len(Body) : \E k \in 1..Len(Val(snap)) : Body[i] = Val(snap)[k]
        /\ \A i, j \in 1..Len(Body) : i # j => Body[i].id # Body[j].id
        /\ \A k \in 1..Len(Val(snap)) :
            LET post == Val(snap)[k]
            IN  (\E i \in 1..Len(Body) : Body[i] = post) <=>
                    \/ q = NULL
                    \/ Val(q) = <<>>
                    \/ ContainsIgnoringCase(post.title, Val(q))
                    \/ /\ post.content # NULL
                       /\ ContainsIgnoringCase(Val(post.content), Val(q))

\* a search for "A": "B" with content "Ab" is listed, "B" without content is not
C5_Witness ==
    /\ Listed /\ q = Some(<<"A">>)
    /\ Len(Val(snap)) = 2
    /\ Val(snap)[1].title = <<"B">> /\ Val(snap)[1].content = NULL
    /\ Val(snap)[2].title = <<"B">> /\ Val(snap)[2].content = Some(<<"A", "b">>)
    /\ Body = <<Val(snap)[2]>>

\* C6: without an order key, or with one that is none of the four, the listing
\* is sorted by date, most recent first, and neither users are fetched nor
\* popularity computed.
C6_DefaultIsMostRecentFirst ==
    (Listed /\ order \notin {"nombre-asc", "nombre-desc", "popularidad-asc", "popularidad-desc"}) =>
        /\ \A i, j \in 1..Len(Body) : i < j => Body[i].date >= Body[j].date
        /\ calls = <<RaPostRead>>
        /\ ppPosts = NULL /\ ppUsers = NULL /\ table = NULL

\* no order key: the older post was fetched first and is listed last
C6_Witness ==
    /\ Listed /\ order = None
    /\ Len(Body) = 2
    /\ Val(snap)[1].date < Val(snap)[2].date
    /\ Body[1] = Val(snap)[2] /\ Body[2] = Val(snap)[1]

\* the popularity of a post among u users
Score(post, u) ==
    IF u >= 2 THEN Fin(LikesAttached(post), u - 1)
    ELSE IF u = 1 /\ LikesAttached(post) > 0 THEN PosInf
    ELSE Zero
\* the rank of a listed post: its score over the posts and users execute
\* fetched, 0 when execute did not fetch it
Rank(post) ==
    IF post.id \in Ids(Val(ppPosts))
    THEN Score(CHOOSE p \in {Val(ppPosts)[k] : k \in 1..Len(Val(ppPosts))} : p.id = post.id,
               Len(Val(ppUsers)))
    ELSE Zero

\* C7: under the popularity orders the scores are those of all posts and all
\* users execute fetched, never of the filtered posts, and a listed post
\* without a score is ranked with popularity 0.
C7_RankedByFullPopularity ==
    (Listed /\ ByPopularity(order)) =>
        /\ table = Some(PopularityMap(Val(ppPosts), Val(ppUsers)))
        /\ EntryPerPost
        /\ \A i, j \in 1..Len(Body) : i < j =>
            IF order = "popularidad-asc" THEN NumLe(Rank(Body[i]), Rank(Body[j]))
            ELSE NumLe(Rank(Body[j]), Rank(Body[i]))

\* the second fetched post was deleted before execute fetched: it has no
\* score, ranks 0 and is listed before the scored post fetched first
C7_Witness ==
    /\ Listed /\ order = "popularidad-asc"
    /\ Len(Body) = 2
    /\ Body[1].id \notin Ids(Val(ppPosts))
    /\ Body[2].id \in Ids(Val(ppPosts))
    /\ Rank(Body[2]) # Zero
    /\ Body[1] = Val(snap)[2]

\* C8: a failed fetch aborts the request: no response, and the same error
\* reaches the caller through the rejected promise of execute and through
\* next(error) of the handler.
C8_ErrorReachesNext ==
    (Done /\ thrown # None) =>
        /\ res = NULL /\ table = NULL
        /\ PpPostRead \in {calls[i] : i \in 1..Len(calls)} => ppRejected = thrown
        /\ nextErr = thrown

\* C9: the array the collaborator handed over has the same elements in the
\* same order after the call.
C9_SnapshotUntouched ==
    snap # NULL => arr = snap

\* the repository calls execute made
ExecuteCalls == SelectSeq(calls, LAMBDA c : c.by = "PostsPopularity")

\* C10 as stated: every call of execute, once over, has called
\* postRepository.readAll once and userRepository.readAll once.
C10_BothFetchedOnce ==
    (Done /\ (table # NULL \/ ppRejected # None)) =>
        ExecuteCalls = <<PpPostRead, PpUserRead>>

\* C10 as amended: execute calls postRepository.readAll once, and
\* userRepository.readAll once after the posts arrived; scores exist only when
\* both fetches completed; an execute whose post fetch failed never calls
\* userRepository.readAll; nothing else is called.
C10_FetchOnceBeforeScoring ==
    /\ ExecuteCalls \in {<<>>, <<PpPostRead>>, <<PpPostRead, PpUserRead>>}
    /\ pc \in {"pp_posts", "pp_users"} => ExecuteCalls # <<>>
    /\ ppPosts # NULL <=> ExecuteCalls = <<PpPostRead, PpUserRead>>
    /\ table # NULL =>
        /\ ppPosts # NULL /\ ppUsers # NULL
        /\ ExecuteCalls = <<PpPostRead, PpUserRead>>
    /\ (ppRejected # None /\ ppPosts = NULL) => ExecuteCalls = <<PpPostRead>>

\* execute resolved for GET /popularity after both fetches
C10_Witness ==
    /\ handler = "popularity" /\ Done /\ table # NULL
    /\ ExecuteCalls = <<PpPostRead, PpUserRead>>
    /\ Len(Val(ppPosts)) = 2 /\ Len(Val(ppUsers)) = 2

\* the post the DELETE requests name, before them and now
Target0 == ReadById(db0, target)
TargetNow == ReadById(db, target)
NoDeleteInFlight == \A r \in 1..MaxRequests : dels[r].pc \in {"idle", "done"}
\* the soft deletes that were authorized and answered with the updated post
SoftCompleted ==
    {r \in 1..MaxRequests :
        dels[r].pc = "done" /\ dels[r].type = "soft" /\ dels[r].status = 200}
HardCompleted ==
    {r \in 1..MaxRequests :
        dels[r].pc = "done" /\ dels[r].type = "hard" /\ dels[r].status = 200}

\* C11: soft deletes never remove the post, and after any number of completed
\* authorized soft deletes of one post, interleaved or not, its deleted flag
\* is the original one after an even number and its negation after an odd one.
C11_FlagFollowsParity ==
    (NoDeleteInFlight /\ Target0 # NULL /\ HardCompleted = {}) =>
        /\ TargetNow # NULL
        /\ Val(TargetNow).deleted =
             IF Cardinality(SoftCompleted) % 2 = 0 THEN Val(Target0).deleted
             ELSE ~Val(Target0).deleted

\* the request is of an ADMIN
ByAdmin(d) == d.user # NULL /\ Val(d.user).role = "ADMIN"
\* the request is of the author of the post it names
ByAuthor(d) == d.user # NULL /\ d.post # NULL /\ Val(d.user).id = Val(d.post).authorId
\* the request got past readById and the repository found its post
Handled(d) == d.pc = "done" /\ d.nextErr \notin Errors /\ d.unhandled # "RecordNotFound"

\* the answers of the requests that must change nothing
RefusalsAnswered ==
    \A r \in 1..MaxRequests :
        LET d == dels[r]
        IN  Handled(d) =>
                /\ d.post = NULL => d.status = 404
                /\ (d.post # NULL /\ d.user = NULL) => d.status = 401
                /\ (d.post # NULL /\ d.user # NULL /\ d.type = "hard" /\ ~ByAdmin(d))
                        => d.status = 403
                /\ (d.post # NULL /\ d.user # NULL /\ d.type = "soft"
                        /\ ~ByAuthor(d) /\ ~ByAdmin(d)) => d.status = 403
                /\ (d.post # NULL /\ d.user # NULL /\ d.type \notin {"hard", "soft"})
                        => d.status = 400
                /\ d.status = 200 =>
                        \/ d.type = "hard" /\ ByAdmin(d)
                        \/ d.type = "soft" /\ (ByAuthor(d) \/ ByAdmin(d))

\* what one step of a DELETE request may do to the store
StoreStepAllowed ==
    /\ \A i \in 1..MaxPosts : i # target => ReadById(db', i) = ReadById(db, i)
    /\ (ReadById(db, target) # NULL /\ ReadById(db', target) = NULL) =>
            \E r \in 1..MaxRequests :
                /\ dels[r].pc = "hard_wait" /\ dels'[r].pc = "done"
                /\ dels'[r].type = "hard" /\ ByAdmin(dels'[r])
    /\ (ReadById(db, target) # NULL /\ ReadById(db', target) # NULL
            /\ ReadById(db', target) # ReadById(db, target)) =>
            /\ ReadById(db', target) =
                 Some([Val(ReadById(db, target)) EXCEPT !.deleted = ~@])
            /\ \E r \in 1..MaxRequests :
                /\ dels[r].pc = "soft_wait" /\ dels'[r].pc = "done"
                /\ dels'[r].type = "soft"
                /\ ByAuthor(dels'[r]) \/ ByAdmin(dels'[r])
    /\ ReadById(db, target) = NULL => ReadById(db', target) = NULL
    /\ \A r \in 1..MaxRequests :
            (dels'[r] # dels[r] /\ dels'[r].status \in {400, 401, 403, 404}) => db' = db

\* C12: a post is removed only by a type=hard request of an ADMIN and its
\* deleted flag changed only by a type=soft request of its author or of an
\* ADMIN; a request for a missing post, without user, a hard delete by a
\* non-ADMIN, a soft delete by neither author nor ADMIN, and one of unknown
\* type leave the store unchanged and are answered 404, 401, 403, 403, 400.
C12_DeleteAuthorization == []RefusalsAnswered /\ [][StoreStepAllowed]_vars

\* a hard delete by a plain user was answered 403 and left the post in the
\* store; the hard delete by an ADMIN after it removed the post
C12_Witness ==
    /\ Target0 # NULL /\ TargetNow = NULL
    /\ dels[1].pc = "done" /\ dels[1].type = "hard" /\ ~ByAdmin(dels[1])
    /\ dels[1].status = 403
    /\ dels[2].pc = "done" /\ dels[2].type = "hard" /\ ByAdmin(dels[2])
    /\ dels[2].status = 200

====
